---- MODULE Spec2Model ----
(***************************************************************************)
(* Postgres-Backup-Manager (src/main.py): the scheduler of the three modes *)
(* (manual, diario, por_intervalo), the per-database backup job            *)
(* (perform_backup), the enumeration of databases (list_databases) and the *)
(* retention cleaner (clean_old_backups), as one state machine.            *)
(*                                                                         *)
(* Time is counted in seconds.  A datetime is the number of seconds since  *)
(* midnight of day 0; the name of an artifact carries the second at which  *)
(* it was built (strftime('%d%m%Y_%H%M%S')).                               *)
(***************************************************************************)
EXTENDS Integers, Sequences, FiniteSets, TLC

VARIABLES
    env,                \* the required settings os.getenv gave a non-empty value for
    modo,               \* args.modo
    tempo,              \* args.tempo
    pc,                 \* position of the single thread of control
    now,                \* the wall clock, datetime.now()
    cycle,              \* number of cycles started so far
    databases,          \* the list returned by list_databases() for this cycle
    idx,                \* position of the for loop in databases
    backup_name,        \* the artifact name of the running job
    ssh_list,           \* the session list_databases opened in its last call
    listing,            \* how the last call of list_databases went
    ssh,                \* the session perform_backup opened in its last call
    mkdir,              \* the remote "mkdir -p" of the running job
    exit_status,        \* exit status of the remote command last waited for
    transferred,        \* scp.get was invoked in the running (or last) job
    fs,                 \* local file system: directory -> entries, or absent
    remote,             \* artifacts pg_dump wrote under /var/backups/postgresql
    target_time,        \* modo_diario: first fire time
    delay,              \* modo_diario: seconds slept before the first cycle
    intervalo_segundos, \* modo_por_intervalo: seconds between cycles
    slept,              \* arguments of the time.sleep calls made so far
    attempted,          \* databases perform_backup was called for in this cycle
    cleaned,            \* databases clean_old_backups was called for in this cycle
    outcomes,           \* what perform_backup logged at the end of each job of this cycle
    days_to_keep,       \* clean_old_backups: retention threshold of the last call
    cutoff_date,        \* clean_old_backups: cutoff of the last call
    removed,            \* clean_old_backups: entries the last call removed (and logged)
    removeFailed,       \* clean_old_backups: entries whose os.remove raised
    error               \* the uncaught exception that ended the process, if any

vars == <<env, modo, tempo, pc, now, cycle, databases, idx, backup_name, ssh_list,
          listing, ssh, mkdir, exit_status, transferred, fs, remote, target_time,
          delay,
          intervalo_segundos, slept, attempted, cleaned, outcomes, days_to_keep,
          cutoff_date, removed, removeFailed, error>>

----------------------------------------------------------------------------
(* Bounds of the model *)

\* cycles a Daily or Interval run is followed for
MaxCycles == 2
\* seconds a successful remote dump may take
DumpSecs == 90
\* the day the process is started on
StartDay == 20
\* largest retention threshold the cleaner is tried with on its own
MaxDaysToKeep == 5

----------------------------------------------------------------------------
(* Program constants *)

\* clean_old_backups(db_name, backup_subdir, days_to_keep=4)
DefaultDaysToKeep == 4
\* exit status of a remote command that has not been waited for
NoStatus == -1

SecondsPerDay == 24 * 3600

\* timedelta(days=d) in seconds
timedelta_days(d) == d * SecondsPerDay

\* time.sleep(24 * 3600) of modo_diario
DailySleep == 24 * 3600

Modos == {"manual", "diario", "por_intervalo"}

\* the third argument of perform_backup / second of clean_old_backups per mode
backup_subdir(m) ==
    CASE m = "manual" -> "backup_manual"
      [] m = "diario" -> "backup_diario"
      [] OTHER        -> "backup_por_intervalo"

Subdirs == {backup_subdir(m) : m \in Modos}

DBNames == {"a", "b"}

\* PG_HOST, PG_USER, PG_PASSWORD, SSH_HOST, SSH_USER, SSH_PASSWORD = os.getenv(...)
RequiredSettings ==
    {"PG_HOST", "PG_USER", "PG_PASSWORD", "SSH_HOST", "SSH_USER", "SSH_PASSWORD"}

\* what the environment (.env) of a run may hold
EnvChoices == {RequiredSettings, RequiredSettings \ {"PG_PASSWORD"}}

\* BACKUP_BASE_DIR/<db_name>/<backup_subdir>
local_backup_path(db, sub) == <<db, sub>>

Dirs == DBNames \X Subdirs

----------------------------------------------------------------------------
(* The --tempo argument.  A text is kept as the list text.split(":") gives, *)
(* each field being the decimal text of an integer, the empty text, or     *)
(* some other text.                                                        *)

Num(v) == [kind |-> "int", v |-> v]
EmptyField == [kind |-> "empty", v |-> 0]
Text(fields) == [given |-> TRUE, fields |-> fields]
\* --tempo not on the command line: args.tempo is None
NoTempo == [given |-> FALSE, fields |-> <<>>]

TempoArgs ==
    { NoTempo,
      Text(<<EmptyField>>),              \* --tempo ""
      Text(<<Num(12)>>),                 \* --tempo 12
      Text(<<Num(12), Num(30)>>),        \* --tempo 12:30
      Text(<<Num(0), Num(0)>>),          \* --tempo 00:00
      Text(<<Num(120), Num(0)>>),        \* --tempo 120:00
      Text(<<Num(1), Num(90)>>),         \* --tempo 01:90
      Text(<<Num(-1), Num(0)>>) }        \* --tempo -1:00

\* `if args.tempo:` -- None and the empty text are false
Truthy(t) == t.given /\ t.fields # <<EmptyField>>

\* int(field) returns (does not raise ValueError)
IntOk(f) == f.kind = "int"

----------------------------------------------------------------------------
(* datetime *)

\* midnight of the day of datetime t
Midnight(t) == (t \div SecondsPerDay) * SecondsPerDay

\* t.replace(hour=h, minute=m, second=0, microsecond=0)
ReplaceTime(t, h, m) == Midnight(t) + h * 3600 + m * 60

\* replace() raises ValueError outside these ranges
ValidTimeOfDay(h, m) == h \in 0..23 /\ m \in 0..59

Clock(day, h, m, s) == day * SecondsPerDay + h * 3600 + m * 60 + s

\* instants the process is started at
StartTimes ==
    { Clock(StartDay, 12, 29, 59),
      Clock(StartDay, 12, 30, 0),
      Clock(StartDay, 12, 30, 30) }

----------------------------------------------------------------------------
(* Local file system.  fs[dir] tells whether dir exists and holds its       *)
(* entries; an entry has a name, a kind ("file", "dir"), a last-modified   *)
(* time, and is whole unless a transfer broke off while writing it.        *)

Absent == [exists |-> FALSE, entries |-> {}]
Dir(entries) == [exists |-> TRUE, entries |-> entries]

File(name, mtime) == [name |-> name, kind |-> "file", mtime |-> mtime, whole |-> TRUE]
Partial(name, mtime) == [name |-> name, kind |-> "file", mtime |-> mtime, whole |-> FALSE]
Directory(name, mtime) == [name |-> name, kind |-> "dir", mtime |-> mtime, whole |-> TRUE]

\* f"backup_{db}_{PG_USER}_{datetime.now().strftime('%d%m%Y_%H%M%S')}.sql"
BackupName(db, t) == <<"backup", db, t>>

\* what earlier runs left under the mode's directory of database "a"
OldEntries(t) ==
    { File(<<"backup", "a", t - timedelta_days(10)>>, t - timedelta_days(10)),
      File(<<"backup", "a", t - timedelta_days(6)>>, t - timedelta_days(6)),
      File(<<"backup", "a", t - timedelta_days(1)>>, t - timedelta_days(1)),
      Directory(<<"archive", "a", 0>>, t - timedelta_days(30)) }

InitialFs(m, t) ==
    [d \in Dirs |->
        IF d = local_backup_path("a", backup_subdir(m)) THEN Dir(OldEntries(t))
        ELSE IF d[1] = "a" THEN Dir({File(<<"backup", "a", t - timedelta_days(8)>>,
                                          t - timedelta_days(8))})
        ELSE Absent]

\* os.path.exists(local_backup_path)
Exists(d) == fs[d].exists

----------------------------------------------------------------------------
(* Initial state: the module has been loaded, the arguments parsed and     *)
(* nothing has run yet.                                                    *)

NoName == <<"none", "", 0>>
NoListing == [exit_status |-> NoStatus, raised |-> FALSE]

Init ==
    /\ env \in EnvChoices
    /\ modo \in Modos
    /\ tempo \in (IF modo = "manual" THEN {NoTempo} ELSE TempoArgs)
    /\ now \in (IF modo = "diario" THEN StartTimes ELSE {Clock(StartDay, 12, 30, 0)})
    /\ pc = "start"
    /\ cycle = 0
    /\ databases = <<>>
    /\ idx = 1
    /\ backup_name = NoName
    /\ ssh_list = "unbound"
    /\ listing = NoListing
    /\ ssh = "unbound"
    /\ mkdir = "none"
    /\ exit_status = NoStatus
    /\ transferred = FALSE
    /\ fs = InitialFs(modo, now)
    /\ remote = {}
    /\ target_time = 0
    /\ delay = 0
    /\ intervalo_segundos = 0
    /\ slept = <<>>
    /\ attempted = <<>>
    /\ cleaned = <<>>
    /\ outcomes = <<>>
    /\ days_to_keep = DefaultDaysToKeep
    /\ cutoff_date = 0
    /\ removed = {}
    /\ removeFailed = {}
    /\ error = "none"

jobVars == <<ssh, mkdir, exit_status, transferred>>
cleanVars == <<cutoff_date, removed, removeFailed>>
scheduleVars == <<target_time, delay, intervalo_segundos>>
argVars == <<env, modo, tempo, days_to_keep>>
listVars == <<cycle, databases, ssh_list, listing>>

\* an exception nobody catches: the traceback ends the process
Crash(e) ==
    /\ pc' = "crashed"
    /\ error' = e

----------------------------------------------------------------------------
(* Mode dispatch and the three modes *)

\* modo_manual() is entered
ModoManualStart ==
    /\ pc = "start"
    /\ modo = "manual"
    /\ pc' = "list"
    /\ UNCHANGED <<now, idx, backup_name, fs, slept, attempted, cleaned, outcomes, error>>
    /\ UNCHANGED <<argVars, listVars, jobVars, cleanVars, scheduleVars>>
    /\ UNCHANGED remote

\* a dispatch that logs the error and runs the cycle loop all the same
MissingTempo_Schedules ==
    /\ pc = "start"
    /\ modo \in {"diario", "por_intervalo"}
    /\ ~Truthy(tempo)
    /\ pc' = "list"
    /\ UNCHANGED <<now, idx, backup_name, fs, slept, attempted, cleaned, outcomes, error>>
    /\ UNCHANGED <<argVars, listVars, jobVars, cleanVars, scheduleVars>>
    /\ UNCHANGED remote

\* diario / por_intervalo without a usable --tempo: an error is logged and the
\* script ends
MissingTempo ==
    /\ pc = "start"
    /\ modo \in {"diario", "por_intervalo"}
    /\ ~Truthy(tempo)
    /\ pc' = "exit"
    /\ UNCHANGED <<now, idx, backup_name, fs, slept, attempted, cleaned, outcomes, error>>
    /\ UNCHANGED <<argVars, listVars, jobVars, cleanVars, scheduleVars>>
    /\ UNCHANGED remote

\* int(hora.split(":")[0]), int(hora.split(":")[1]) and now.replace(...) all return
DiarioArgsOk(t) ==
    /\ Len(t.fields) >= 2
    /\ IntOk(t.fields[1])
    /\ IntOk(t.fields[2])
    /\ ValidTimeOfDay(t.fields[1].v, t.fields[2].v)

\* the exception the argument of modo_diario raises
DiarioArgsError(t) ==
    IF ~IntOk(t.fields[1]) THEN "ValueError"
    ELSE IF Len(t.fields) < 2 THEN "IndexError"
    ELSE "ValueError"

\* now > target_time: today's occurrence has passed
OccurrencePassed(t, target) == t > target

\* the first fire time modo_diario computes at instant t for hh:mm
FirstFireTime(t, hh, mm) ==
    IF OccurrencePassed(t, ReplaceTime(t, hh, mm))
    THEN ReplaceTime(t, hh, mm) + timedelta_days(1)
    ELSE ReplaceTime(t, hh, mm)

\* modo_diario(hora) up to and including the call time.sleep(delay)
ModoDiarioSchedule ==
    /\ pc = "start"
    /\ modo = "diario"
    /\ Truthy(tempo)
    /\ IF DiarioArgsOk(tempo)
       THEN /\ target_time' = FirstFireTime(now, tempo.fields[1].v, tempo.fields[2].v)
            /\ delay' = target_time' - now
            /\ slept' = Append(slept, delay')
            /\ pc' = "wait_first"
            /\ UNCHANGED error
       ELSE /\ Crash(DiarioArgsError(tempo))
            /\ UNCHANGED <<target_time, delay, slept>>
    /\ UNCHANGED <<now, idx, backup_name, fs, attempted, cleaned, outcomes, intervalo_segundos>>
    /\ UNCHANGED <<argVars, listVars, jobVars, cleanVars>>
    /\ UNCHANGED remote

\* time.sleep(delay) returns: the first cycle of modo_diario begins
FirstFire ==
    /\ pc = "wait_first"
    /\ now' = now + delay
    /\ pc' = "list"
    /\ UNCHANGED <<idx, backup_name, fs, slept, attempted, cleaned, outcomes, error>>
    /\ UNCHANGED <<argVars, listVars, jobVars, cleanVars, scheduleVars>>
    /\ UNCHANGED remote

\* horas, minutos = map(int, intervalo.split(":")) returns
IntervaloArgsOk(t) ==
    /\ Len(t.fields) = 2
    /\ IntOk(t.fields[1])
    /\ IntOk(t.fields[2])

\* the minutes added as if they were seconds
IntervaloSegundos_MinutesAsSeconds(horas, minutos) == horas * 3600 + minutos

\* intervalo_segundos = horas * 3600 + minutos * 60
IntervaloSegundos(horas, minutos) == horas * 3600 + minutos * 60

\* modo_por_intervalo(intervalo) up to the head of its loop
ModoPorIntervaloStart ==
    /\ pc = "start"
    /\ modo = "por_intervalo"
    /\ Truthy(tempo)
    /\ IF IntervaloArgsOk(tempo)
       THEN /\ intervalo_segundos' = IntervaloSegundos(tempo.fields[1].v, tempo.fields[2].v)
            /\ pc' = "list"
            /\ UNCHANGED error
       ELSE /\ Crash("ValueError")
            /\ UNCHANGED intervalo_segundos
    /\ UNCHANGED <<now, idx, backup_name, fs, slept, attempted, cleaned, outcomes, target_time, delay>>
    /\ UNCHANGED <<argVars, listVars, jobVars, cleanVars>>
    /\ UNCHANGED remote

----------------------------------------------------------------------------
(* list_databases *)

\* what stdout.read().decode().split() may give
Listings == { <<>>, <<"a">>, <<"a", "b">> }

\* list_databases without the test of the exit status
ListingReturned_Unchecked(status, names) == names

\* the value list_databases returns when the listing command has exited
ListingReturned(status, names) == IF status # 0 THEN <<>> ELSE names

\* the session when list_databases returns after the listing command has exited:
\* ssh.close() is reached on the path of exit status 0 only
ListingSession(status) == IF status # 0 THEN "open" ELSE "closed"

\* a loop that passes over one database at each turn
LoopTo_Skips(dbs, i) ==
    /\ idx' = i + 1
    /\ IF i + 1 <= Len(dbs)
       THEN /\ pc' = "makedirs"
            /\ backup_name' = BackupName(dbs[i + 1], now')
       ELSE /\ pc' = "finalizado"
            /\ backup_name' = NoName

\* the for loop of a mode takes database number i of dbs, or ends
LoopTo(dbs, i) ==
    /\ idx' = i
    /\ IF i <= Len(dbs)
       THEN /\ pc' = "makedirs"
            /\ backup_name' = BackupName(dbs[i], now')
       ELSE /\ pc' = "finalizado"
            /\ backup_name' = NoName

\* databases = list_databases() at the head of a cycle, and the first turn of
\* the for loop
ListDatabases ==
    /\ pc = "list"
    /\ cycle' = cycle + 1
    /\ attempted' = <<>>
    /\ cleaned' = <<>>
    /\ outcomes' = <<>>
    /\ \/ \* create_ssh_client raises: caught, [] returned
          /\ ssh_list' = "unbound"
          /\ listing' = [exit_status |-> NoStatus, raised |-> TRUE]
          /\ databases' = <<>>
       \/ \* exec_command, recv_exit_status or read raises: caught, [] returned
          /\ ssh_list' = "open"
          /\ listing' = [exit_status |-> NoStatus, raised |-> TRUE]
          /\ databases' = <<>>
       \/ \* the listing command exits
          \E status \in {0, 1}, names \in Listings :
             /\ ssh_list' = ListingSession(status)
             /\ listing' = [exit_status |-> status, raised |-> FALSE]
             /\ databases' = ListingReturned(status, names)
    /\ ssh' = "unbound"
    /\ mkdir' = "none"
    /\ exit_status' = NoStatus
    /\ transferred' = FALSE
    /\ removed' = {}
    /\ removeFailed' = {}
    /\ now' = now
    /\ LoopTo(databases', 1)
    /\ UNCHANGED <<fs, slept, cutoff_date, error>>
    /\ UNCHANGED <<argVars, scheduleVars>>
    /\ UNCHANGED remote

----------------------------------------------------------------------------
(* perform_backup(db, backup_name, backup_subdir) *)

db_name == databases[idx]
JobDir == local_backup_path(db_name, backup_subdir(modo))

\* perform_backup without its except clause: the exception leaves the function
Uncaught ==
    /\ Crash("Exception")
    /\ UNCHANGED outcomes

\* except Exception as e: logging.error(f"Erro ao realizar backup: {e}")
\* perform_backup returns to the loop, which goes on to clean_old_backups
Caught ==
    /\ pc' = "clean"
    /\ outcomes' = Append(outcomes, "Erro ao realizar backup")
    /\ UNCHANGED error

\* perform_backup is called; if not os.path.exists(...): os.makedirs(...)
PB_Makedirs ==
    /\ pc = "makedirs"
    /\ attempted' = Append(attempted, db_name)
    /\ ssh' = "unbound"
    /\ mkdir' = "none"
    /\ exit_status' = NoStatus
    /\ transferred' = FALSE
    /\ IF Exists(JobDir)
       THEN /\ pc' = "connect"
            /\ UNCHANGED <<fs, error>>
       ELSE \/ /\ fs' = [fs EXCEPT ![JobDir] = Dir({})]
               /\ pc' = "connect"
               /\ UNCHANGED error
            \/ \* os.makedirs raises OSError, outside the try block
               /\ Crash("OSError")
               /\ UNCHANGED fs
    /\ UNCHANGED <<now, idx, backup_name, slept, cleaned, outcomes>>
    /\ UNCHANGED <<argVars, listVars, cleanVars, scheduleVars>>
    /\ UNCHANGED remote

\* ssh = create_ssh_client(...); create_remote_backup_dir(ssh, remote_backup_path)
PB_Connect ==
    /\ pc = "connect"
    /\ \/ \* create_ssh_client raises
          /\ ssh' = "unbound"
          /\ mkdir' = mkdir
          /\ Caught
       \/ \* connected, and exec_command("mkdir -p ...") raises
          /\ ssh' = "open"
          /\ mkdir' = mkdir
          /\ Caught
       \/ \* connected, and the mkdir command is handed to the remote host
          /\ ssh' = "open"
          /\ mkdir' = "submitted"
          /\ pc' = "dump"
          /\ UNCHANGED <<outcomes, error>>
    /\ UNCHANGED <<now, idx, backup_name, exit_status, transferred, fs, slept,
                   attempted, cleaned>>
    /\ UNCHANGED <<argVars, listVars, cleanVars, scheduleVars>>
    /\ UNCHANGED remote

\* the remote host finishes the "mkdir -p" nobody waits for
RemoteMkdirDone ==
    /\ mkdir = "submitted"
    /\ pc \in {"dump", "scp"}
    /\ mkdir' = "done"
    /\ UNCHANGED <<pc, now, idx, backup_name, ssh, exit_status, transferred, fs,
                   slept, attempted, cleaned, outcomes, error>>
    /\ UNCHANGED <<argVars, listVars, cleanVars, scheduleVars>>
    /\ UNCHANGED remote

\* seconds the remote pg_dump runs when it succeeds
DumpDurations == {DumpSecs}

\* pg_dump -f {remote_backup_path}/{backup_name}: a dump that exits with status 0
\* has written the artifact on the remote host
Dumped(artifacts, status, dir, name) ==
    IF status = 0 THEN artifacts \cup {[dir |-> dir, name |-> name]} ELSE artifacts

\* a test that lets a positive exit status through
DumpFailed_Unchecked(status) == status < 0

\* if exit_status != 0: ... return
DumpFailed(status) == status # 0

\* ssh.exec_command(backup_command); recv_exit_status(); the test of the status
PB_Dump ==
    /\ pc = "dump"
    /\ \/ \* exec_command or recv_exit_status raises
          /\ exit_status' = NoStatus
          /\ now' = now
          /\ remote' = remote
          /\ Caught
       \/ \E status \in {0, 1} :
             /\ exit_status' = status
             /\ IF status = 0
                THEN \E d \in DumpDurations : now' = now + d
                ELSE now' = now
             /\ remote' = Dumped(remote, status, JobDir, backup_name)
             /\ IF DumpFailed(status)
                THEN /\ pc' = "clean"
                     /\ outcomes' = Append(outcomes, "pg_dump failed")
                ELSE /\ pc' = "scp"
                     /\ UNCHANGED outcomes
             /\ UNCHANGED error
    /\ UNCHANGED <<idx, backup_name, ssh, mkdir, transferred, fs, slept,
                   attempted, cleaned>>
    /\ UNCHANGED <<argVars, listVars, cleanVars, scheduleVars>>

\* scp.get writes the artifact under its remote base name, now being its mtime
Fetched(entries, name, t) ==
    {e \in entries : e.name # name} \cup {File(name, t)}

\* scp.get raises after it began to write the local file
Broken(entries, name, t) ==
    {e \in entries : e.name # name} \cup {Partial(name, t)}

\* scp = SCPClient(...); scp.get(...); scp.close(); ssh.close()
PB_Transfer ==
    /\ pc = "scp"
    /\ transferred' = TRUE
    /\ \/ \* scp.get returns
          /\ fs' = [fs EXCEPT ![JobDir] = Dir(Fetched(@.entries, backup_name, now))]
          /\ ssh' = "closed"
          /\ pc' = "clean"
          /\ outcomes' = Append(outcomes, "transferido")
          /\ UNCHANGED error
       \/ \* SCPClient or scp.get raises before anything is written locally
          /\ fs' = fs
          /\ ssh' = ssh
          /\ Caught
       \/ \* scp.get raises in the middle of the file
          /\ fs' = [fs EXCEPT ![JobDir] = Dir(Broken(@.entries, backup_name, now))]
          /\ ssh' = ssh
          /\ Caught
    /\ UNCHANGED <<now, idx, backup_name, mkdir, exit_status, slept, attempted, cleaned>>
    /\ UNCHANGED <<argVars, listVars, cleanVars, scheduleVars>>
    /\ UNCHANGED remote

----------------------------------------------------------------------------
(* clean_old_backups(db, backup_subdir, days_to_keep) *)

\* cutoff_date = datetime.now() - timedelta(days=days_to_keep)
CutoffDate(t, days) == t - timedelta_days(days)

\* a cutoff that takes the file aged exactly days_to_keep days too
IsExpired_Inclusive(mtime, cutoff) == mtime <= cutoff

\* if file_mtime < cutoff_date
IsExpired(mtime, cutoff) == mtime < cutoff

\* a cleaner without the os.path.isfile test
Expired_NoIsFile(entries, cutoff) ==
    {e \in entries : IsExpired(e.mtime, cutoff)}

\* the entries of a directory the cleaner removes: os.path.isfile and expired
Expired(entries, cutoff) ==
    {e \in entries : e.kind = "file" /\ IsExpired(e.mtime, cutoff)}

\* the call clean_old_backups(db, subdir) that follows perform_backup, and the
\* next turn of the for loop
CleanOldBackups ==
    /\ pc = "clean"
    /\ cleaned' = Append(cleaned, db_name)
    /\ now' = now
    /\ IF ~Exists(JobDir)
       THEN /\ LoopTo(databases, idx + 1)
            /\ UNCHANGED <<fs, cutoff_date, removed, removeFailed, error>>
       ELSE /\ cutoff_date' = CutoffDate(now, days_to_keep)
            /\ LET expired == Expired(fs[JobDir].entries, cutoff_date') IN
               \/ \* every os.remove returns
                  /\ fs' = [fs EXCEPT ![JobDir] = Dir(@.entries \ expired)]
                  /\ removed' = expired
                  /\ removeFailed' = {}
                  /\ LoopTo(databases, idx + 1)
                  /\ UNCHANGED error
               \/ \* os.remove(f) raises OSError after the entries of gone, which
                  \* os.listdir gave before f, were removed; nothing catches it
                  \E f \in expired : \E gone \in SUBSET (expired \ {f}) :
                     /\ fs' = [fs EXCEPT ![JobDir] = Dir(@.entries \ gone)]
                     /\ removed' = gone
                     /\ removeFailed' = {f}
                     /\ Crash("OSError")
                     /\ UNCHANGED <<idx, backup_name>>
    /\ UNCHANGED <<slept, attempted, outcomes>>
    /\ UNCHANGED <<argVars, listVars, jobVars, scheduleVars>>
    /\ UNCHANGED remote

----------------------------------------------------------------------------
(* The end of a cycle *)

\* modo_manual with the `while True` of the other two modes around its body
EndManual_Loops ==
    /\ pc = "finalizado"
    /\ modo = "manual"
    /\ cycle < MaxCycles
    /\ pc' = "list"
    /\ UNCHANGED <<now, idx, backup_name, fs, slept, attempted, cleaned, outcomes, error>>
    /\ UNCHANGED <<argVars, listVars, jobVars, cleanVars, scheduleVars>>
    /\ UNCHANGED remote

\* logging.info("Modo manual finalizado"): modo_manual returns, the script ends
EndManual ==
    /\ pc = "finalizado"
    /\ modo = "manual"
    /\ pc' = "done"
    /\ UNCHANGED <<now, idx, backup_name, fs, slept, attempted, cleaned, outcomes, error>>
    /\ UNCHANGED <<argVars, listVars, jobVars, cleanVars, scheduleVars>>
    /\ UNCHANGED remote

\* a modo_diario that sleeps until the next occurrence of the time of day
EndDiario_UntilTimeOfDay ==
    /\ pc = "finalizado"
    /\ modo = "diario"
    /\ slept' = Append(slept, SecondsPerDay - ((now - target_time) % SecondsPerDay))
    /\ pc' = "sleeping"
    /\ UNCHANGED <<now, idx, backup_name, fs, attempted, cleaned, outcomes, error>>
    /\ UNCHANGED <<argVars, listVars, jobVars, cleanVars, scheduleVars>>
    /\ UNCHANGED remote

\* time.sleep(24 * 3600) is called
EndDiario ==
    /\ pc = "finalizado"
    /\ modo = "diario"
    /\ slept' = Append(slept, DailySleep)
    /\ pc' = "sleeping"
    /\ UNCHANGED <<now, idx, backup_name, fs, attempted, cleaned, outcomes, error>>
    /\ UNCHANGED <<argVars, listVars, jobVars, cleanVars, scheduleVars>>
    /\ UNCHANGED remote

\* time.sleep(intervalo_segundos) is called; a negative length raises ValueError
EndIntervalo ==
    /\ pc = "finalizado"
    /\ modo = "por_intervalo"
    /\ IF intervalo_segundos >= 0
       THEN /\ slept' = Append(slept, intervalo_segundos)
            /\ pc' = "sleeping"
            /\ UNCHANGED error
       ELSE /\ Crash("ValueError")
            /\ UNCHANGED slept
    /\ UNCHANGED <<now, idx, backup_name, fs, attempted, cleaned, outcomes>>
    /\ UNCHANGED <<argVars, listVars, jobVars, cleanVars, scheduleVars>>
    /\ UNCHANGED remote

\* time.sleep returns after the seconds asked for: back to the head of the loop
WakeUp ==
    /\ pc = "sleeping"
    /\ cycle < MaxCycles
    /\ now' = now + slept[Len(slept)]
    /\ pc' = "list"
    /\ UNCHANGED <<idx, backup_name, fs, slept, attempted, cleaned, outcomes, error>>
    /\ UNCHANGED <<argVars, listVars, jobVars, cleanVars, scheduleVars>>
    /\ UNCHANGED remote

----------------------------------------------------------------------------

Next ==
    \/ ModoManualStart
    \/ MissingTempo
    \/ ModoDiarioSchedule
    \/ FirstFire
    \/ ModoPorIntervaloStart
    \/ ListDatabases
    \/ PB_Makedirs
    \/ PB_Connect
    \/ RemoteMkdirDone
    \/ PB_Dump
    \/ PB_Transfer
    \/ CleanOldBackups
    \/ EndManual
    \/ EndDiario
    \/ EndIntervalo
    \/ WakeUp

Spec == Init /\ [][Next]_vars

\* the single thread keeps running while it has a step to take (every remote
\* command and transfer returns)
FairSpec == Spec /\ WF_vars(Next)

----------------------------------------------------------------------------
(* clean_old_backups on its own: every threshold and directory contents    *)
(* around the threshold.                                                   *)

CleanDir == local_backup_path("a", backup_subdir("manual"))

\* entries aged around `days` days at instant t
Candidates(t, days) ==
    { File(<<"backup", "a", 1>>, t - timedelta_days(days) + 1),
      File(<<"backup", "a", 2>>, t - timedelta_days(days)),
      File(<<"backup", "a", 3>>, t - timedelta_days(days) - 1),
      File(<<"backup", "a", 4>>, t - timedelta_days(days + 3)),
      Directory(<<"archive", "a", 0>>, t - timedelta_days(days + 3)) }

\* the directory of another database or of another mode: it holds a file past
\* the threshold
Elsewhere(d, t, days) == Dir({File(<<"backup", d[1], 0>>, t - timedelta_days(days + 3))})

InitClean ==
    /\ env = RequiredSettings
    /\ modo = "manual"
    /\ tempo = NoTempo
    /\ now = Clock(StartDay, 12, 30, 0)
    /\ pc = "clean"
    /\ cycle = 1
    /\ databases = <<"a">>
    /\ idx = 1
    /\ backup_name = BackupName("a", now)
    /\ ssh_list = "closed"
    /\ listing = [exit_status |-> 0, raised |-> FALSE]
    /\ ssh = "unbound"
    /\ mkdir = "none"
    /\ exit_status = NoStatus
    /\ transferred = FALSE
    /\ days_to_keep \in 0..MaxDaysToKeep
    /\ remote = {[dir |-> CleanDir, name |-> BackupName("a", now - timedelta_days(days_to_keep + 3))]}
    /\ \/ fs = [d \in Dirs |-> IF d = CleanDir THEN Absent ELSE Elsewhere(d, now, days_to_keep)]
       \/ \E entries \in SUBSET Candidates(now, days_to_keep) :
             fs = [d \in Dirs |-> IF d = CleanDir THEN Dir(entries)
                                  ELSE Elsewhere(d, now, days_to_keep)]
    /\ target_time = 0
    /\ delay = 0
    /\ intervalo_segundos = 0
    /\ slept = <<>>
    /\ attempted = <<"a">>
    /\ cleaned = <<>>
    /\ outcomes = <<"Erro ao realizar backup">>
    /\ cutoff_date = 0
    /\ removed = {}
    /\ removeFailed = {}
    /\ error = "none"

NextClean == CleanOldBackups

SpecClean == InitClean /\ [][NextClean]_vars

----------------------------------------------------------------------------
(* Properties *)

InJob == pc \in {"connect", "dump", "scp"}

\* entries a step adds to some local directory
Created == UNION {fs'[d].entries \ fs[d].entries : d \in Dirs}

\* C1: perform_backup never invokes scp.get in a job whose dump command
\* returned a non-zero exit status (or did not return one), and a step of such
\* a job creates no local file: scp.get is reached, and a local entry is
\* created, only with exit_status = 0.
C1_NoTransferAfterFailedDump ==
    [][ /\ (pc' = "scp" => exit_status' = 0)
        /\ (transferred' => exit_status' = 0)
        /\ (Created # {} => pc = "scp" /\ exit_status = 0) ]_vars

\* a job whose dump exited with status 1 has returned without any transfer
C1_Witness ==
    /\ pc = "clean"
    /\ exit_status = 1
    /\ ~transferred
    /\ outcomes[Len(outcomes)] = "pg_dump failed"

\* C2: the session perform_backup acquired is closed when perform_backup has
\* returned (control is at the call of clean_old_backups that follows it).
C2_SessionReleasedOnReturn ==
    pc = "clean" => ssh # "open"

\* C3: a failure of the dump command (non-zero exit status or exception) or of
\* the transfer in the job of one database keeps the process alive and hands
\* control to the same database's clean_old_backups call; when that call
\* returns the loop takes the next database, and a cycle ends only when
\* perform_backup has been called for every database of the list, in order.
C3_FailureDoesNotBlockLaterTargets ==
    [][ /\ (InJob => /\ pc' \in {"dump", "scp", "clean"}
                     /\ idx' = idx
                     /\ error' = "none")
        /\ (pc = "clean" /\ pc' # "crashed" =>
                /\ idx' = idx + 1
                /\ pc' = (IF idx < Len(databases) THEN "makedirs" ELSE "finalizado"))
        /\ (pc' = "makedirs" => attempted' = SubSeq(databases', 1, idx' - 1))
        /\ (pc' \in {"connect", "dump", "scp", "clean"} =>
                attempted' = SubSeq(databases', 1, idx'))
        /\ (pc' \in {"finalizado", "sleeping", "done"} => attempted' = databases') ]_vars

Failures == {"pg_dump failed", "Erro ao realizar backup"}

\* the job of the first of two databases failed and the second one was attempted
C3_Witness ==
    /\ pc = "finalizado"
    /\ Len(databases) = 2
    /\ outcomes[1] \in Failures
    /\ attempted = databases
    /\ Len(outcomes) = 2

\* C4: in Daily and Interval modes the process is never ended by an error of
\* the taxonomy; here the FilesystemError that os.makedirs (perform_backup) or
\* os.remove (clean_old_backups) raises.
C4_NoTerminationByTaxonomyError ==
    modo \in {"diario", "por_intervalo"} => ~(pc = "crashed" /\ error = "OSError")

\* C5: for every threshold d = days_to_keep >= 0 and every regular file of the
\* cleaned directory, a call of clean_old_backups keeps the file when its age
\* now - mtime is at most d days (so also when it is exactly d days), and a
\* call that returns has removed it when its age is more than d days.
C5_RetentionBoundary ==
    [][ pc = "clean" /\ Exists(JobDir) =>
          \A e \in fs[JobDir].entries :
             e.kind = "file" =>
                /\ (now - e.mtime <= days_to_keep * 86400 => e \in fs'[JobDir].entries)
                /\ (now - e.mtime > days_to_keep * 86400 /\ pc' # "crashed"
                       => e \notin fs'[JobDir].entries) ]_vars

\* the cleaner has returned: it removed a file one second older than the
\* threshold and kept the file aged exactly the threshold
C5_Witness ==
    /\ pc = "finalizado"
    /\ cleaned = <<"a">>
    /\ \E e \in removed : now - e.mtime = days_to_keep * 86400 + 1
    /\ \E e \in fs[CleanDir].entries :
          e.kind = "file" /\ now - e.mtime = days_to_keep * 86400

\* C6: the first fire time of modo_diario is today at hh:mm when now is before
\* it and tomorrow at hh:mm otherwise (also when now is exactly today at
\* hh:mm), so it is strictly after now; the delay is >= 0.
C6_FirstFireStrictlyAfterNow ==
    pc = "wait_first" =>
       LET today == ReplaceTime(now, tempo.fields[1].v, tempo.fields[2].v) IN
       /\ (now < today => target_time = today)
       /\ (now >= today => target_time = today + 86400)
       /\ target_time > now
       /\ delay >= 0

\* C7: in modo_por_intervalo with argument horas:minutos no sleep precedes the
\* first cycle, exactly one sleep lies between two cycles, every sleep asks for
\* horas*3600 + minutos*60 seconds and that many seconds pass, and the end of
\* every cycle is followed by that sleep (a negative length cannot be slept).
C7_IntervalSleepExact ==
    [][ modo = "por_intervalo" /\ Len(tempo.fields) = 2 =>
          LET total == tempo.fields[1].v * 3600 + tempo.fields[2].v * 60 IN
          /\ (pc = "start" /\ pc' = "list" => slept' = <<>> /\ now' = now)
          /\ (pc' \in {"list", "makedirs", "connect", "dump", "scp", "clean", "finalizado"}
                 => Len(slept') = (IF pc' = "list" THEN cycle' ELSE cycle' - 1))
          /\ (\A i \in 1..Len(slept') : slept'[i] = total)
          /\ (pc = "finalizado" /\ total >= 0 =>
                 pc' = "sleeping" /\ slept' = Append(slept, total))
          /\ (pc = "sleeping" => pc' = "list" /\ now' = now + total) ]_vars

\* a cycle with a failed job was followed by the sleep of 12:30 and the next
\* cycle is about to start
C7_Witness ==
    /\ modo = "por_intervalo"
    /\ pc = "list"
    /\ cycle = 1
    /\ slept = <<45000>>
    /\ outcomes # <<>>
    /\ outcomes[1] \in Failures

ListingFailed ==
    \/ listing.raised
    \/ listing.exit_status \notin {0, NoStatus}

\* C8: when the listing command exits non-zero or the enumeration raises,
\* list_databases returns the empty list; the cycle calls perform_backup and
\* clean_old_backups for nobody and changes no local file, the process does
\* not fail, and in diario / por_intervalo the end of the cycle is followed by
\* the between-cycle sleep (which raises only if its length is negative).
C8_FailedListingMeansEmptyCycle ==
    [][ ListingFailed' =>
          /\ databases' = <<>>
          /\ attempted' = <<>>
          /\ cleaned' = <<>>
          /\ outcomes' = <<>>
          /\ fs' = fs
          /\ pc' \in {"finalizado", "sleeping", "list", "done", "crashed"}
          /\ (pc' = "crashed" => intervalo_segundos < 0 /\ error' = "ValueError")
          /\ (pc = "finalizado" /\ modo # "manual" /\ intervalo_segundos >= 0
                 => pc' = "sleeping") ]_vars

\* the listing command exited with status 1 and the scheduler sleeps
C8_Witness ==
    /\ listing.exit_status = 1
    /\ modo = "diario"
    /\ pc = "sleeping"
    /\ attempted = <<>>

\* C9: an os.remove that raises in clean_old_backups is not fatal, and every
\* other expired regular file of the directory is removed by the same call.
C9_DeletionErrorNonFatal ==
    removeFailed # {} =>
       /\ pc # "crashed"
       /\ Expired(fs[JobDir].entries, cutoff_date) \subseteq removeFailed

\* C10: modo_manual runs one cycle and ends: it never sleeps, never starts a
\* second cycle, is done only when perform_backup has been called and has
\* returned for every listed database, and reaches done whatever the jobs'
\* outcomes are (success, dump failure, transfer failure), unless an OSError of
\* the local file system ends the process.
C10_ManualRunsOneCycle ==
    /\ [](modo = "manual" =>
            /\ pc \notin {"wait_first", "sleeping"}
            /\ slept = <<>>
            /\ cycle <= 1
            /\ (pc = "done" => /\ cycle = 1
                               /\ attempted = databases
                               /\ Len(outcomes) = Len(databases)))
    /\ ((modo = "manual") ~> (pc = "done" \/ error = "OSError"))

\* manual mode is done after a dump failure, a transfer failure and nothing else
C10_Witness ==
    /\ modo = "manual"
    /\ pc = "done"
    /\ cycle = 1
    /\ outcomes = <<"pg_dump failed", "Erro ao realizar backup">>
    /\ transferred

\* C11: no enumeration starts, no remote session is opened and no remote
\* command is executed while a required setting (SSH host/user/password,
\* dump-utility user/password/host) is empty or absent.
C11_NoRemoteUseWithMissingSettings ==
    (cycle >= 1 \/ ssh_list # "unbound" \/ ssh # "unbound" \/ exit_status # NoStatus)
        => env = RequiredSettings

\* the invariant of a ScheduleSpec, read off the --tempo argument
ScheduleInvariant ==
    /\ Len(tempo.fields) = 2
    /\ tempo.fields[1].kind = "int"
    /\ tempo.fields[2].kind = "int"
    /\ LET h == tempo.fields[1].v
           m == tempo.fields[2].v
       IN  IF modo = "diario"
           THEN h \in 0..23 /\ m \in 0..59
           ELSE h >= 0 /\ m \in 0..59 /\ h * 3600 + m * 60 > 0

\* C12: in diario and por_intervalo no cycle is run and no sleep is made
\* under a --tempo that breaks the invariant of its ScheduleSpec.
C12_NoScheduleOutsideInvariant ==
    (modo # "manual" /\ (cycle >= 1 \/ slept # <<>>)) => ScheduleInvariant

\* C13: with modo diario or por_intervalo and no --tempo, the program only
\* logs an error and ends: no enumeration, no backup job, no cleanup, no
\* sleep, and nothing local or remote is touched.
C13_MissingTempoExits ==
    (modo \in {"diario", "por_intervalo"} /\ ~tempo.given) =>
        /\ pc \in {"start", "exit"}
        /\ cycle = 0
        /\ slept = <<>>
        /\ attempted = <<>>
        /\ cleaned = <<>>
        /\ ssh_list = "unbound"
        /\ ssh = "unbound"
        /\ fs = InitialFs(modo, now)
        /\ remote = {}
        /\ error = "none"

\* por_intervalo without --tempo has ended
C13_Witness ==
    /\ modo = "por_intervalo"
    /\ ~tempo.given
    /\ pc = "exit"

\* C14: clean_old_backups is called for a database only after that database's
\* own transfer has completed in the cycle; not after a job that ended at the
\* failed dump or whose transfer did not complete.
C14_CleanOnlyAfterOwnTransfer ==
    \A i \in 1..Len(cleaned) : outcomes[i] = "transferido"

\* C15: when perform_backup issues the pg_dump command, the remote "mkdir -p"
\* of create_remote_backup_dir has completed (it is not merely submitted).
C15_MkdirDoneBeforeDump ==
    [][ pc = "dump" /\ pc' # "dump" => mkdir = "done" ]_vars

\* C16: once list_databases has returned (the cycle is at a job, at its end or
\* asleep), the session list_databases opened is not open any more, whichever
\* path it returned by.
C16_ListingSessionClosedOnReturn ==
    pc \in {"makedirs", "connect", "dump", "scp", "clean", "finalizado", "sleeping", "done"}
        => ssh_list # "open"

\* C17: the list of databases is read once, at the head of each cycle, and the
\* cycle calls perform_backup once per database of that list in the order of
\* the list; the call for one database starts only when the job and the
\* clean_old_backups call of every earlier database have ended, so that at most
\* one database is between its perform_backup and the end of its cleaning.
C17_OneJobPerTargetInOrder ==
    [][ /\ (databases' # databases \/ cycle' # cycle =>
                pc = "list" /\ cycle' = cycle + 1)
        /\ (pc = "list" => attempted' = <<>> /\ cleaned' = <<>>)
        /\ (pc # "list" /\ attempted' # attempted =>
                /\ pc = "makedirs"
                /\ cleaned = attempted
                /\ Len(attempted) < Len(databases)
                /\ attempted' = Append(attempted, databases[Len(attempted) + 1]))
        /\ (pc # "list" /\ cleaned' # cleaned =>
                /\ pc = "clean"
                /\ Len(attempted) = Len(cleaned) + 1
                /\ cleaned' = Append(cleaned, attempted[Len(attempted)]))
        /\ Len(attempted') - Len(cleaned') \in {0, 1}
        /\ (pc' \in {"finalizado", "sleeping", "done"} =>
                attempted' = databases' /\ cleaned' = databases') ]_vars

\* the second cycle read two databases and ran the job and the cleaning of each
C17_Witness ==
    /\ cycle = 2
    /\ pc = "finalizado"
    /\ Len(databases) = 2
    /\ attempted = databases
    /\ cleaned = databases
    /\ Len(outcomes) = 2

\* C18 as stated: in modo_diario every cycle starts at the time of day hh:mm
\* (a whole number of days after the first fire time, whatever time the cycles
\* before it took), and no job starts before the first fire time.
C18_EveryCycleStartsAtTimeOfDay ==
    modo = "diario" =>
        /\ (pc = "list" => (now - target_time) % SecondsPerDay = 0)
        /\ (pc \in {"makedirs", "connect", "dump", "scp", "clean"} => now >= target_time)

\* C18, amended: in modo_diario the first cycle starts at the first fire time
\* and no job starts before it; every later cycle starts exactly 24 hours after
\* the cycle before it ENDED, so the start instants of two consecutive cycles
\* are 24 hours plus the running time of the earlier cycle apart.
C18_DailyCycleStartsAfterSleep ==
    [][ modo = "diario" =>
          /\ (pc' = "list" /\ pc # "list" => pc \in {"wait_first", "sleeping"})
          /\ (pc = "wait_first" => pc' = "list" /\ now' = target_time)
          /\ (pc = "finalizado" => pc' = "sleeping" /\ now' = now)
          /\ (pc = "sleeping" => pc' = "list" /\ now' = now + timedelta_days(1))
          /\ (pc' \in {"makedirs", "connect", "dump", "scp", "clean"} =>
                now' >= target_time) ]_vars

\* the second cycle of modo_diario is about to start, more than 24 hours after
\* the start of the first one, which ran a dump
C18_Witness ==
    /\ modo = "diario"
    /\ pc = "list"
    /\ cycle = 1
    /\ "transferido" \in {outcomes[i] : i \in 1..Len(outcomes)}
    /\ now > target_time + timedelta_days(1)

\* a directory that holds a whole artifact (a regular file fully transferred)
HasArtifact(dir) == \E e \in dir.entries : e.kind = "file" /\ e.whole

\* C19: a local directory that holds a whole artifact of a database still holds
\* one after every step: the cleaner removes the last artifact of a database
\* only when a newer one was stored.
C19_CleaningKeepsAnArtifact ==
    [][ \A d \in Dirs : HasArtifact(fs[d]) => HasArtifact(fs'[d]) ]_vars

\* C20: a call of clean_old_backups(db, subdir) leaves every other local
\* directory (other databases, other modes of the same database) as it was,
\* removes from its own directory nothing but regular files, leaves the remote
\* artifacts as they were, and when its directory does not exist it changes
\* nothing and raises nothing.
C20_CleanTouchesOwnFilesOnly ==
    [][ pc = "clean" =>
          /\ \A d \in Dirs \ {JobDir} : fs'[d] = fs[d]
          /\ fs'[JobDir].exists = fs[JobDir].exists
          /\ fs'[JobDir].entries \subseteq fs[JobDir].entries
          /\ \A e \in fs[JobDir].entries \ fs'[JobDir].entries : e.kind = "file"
          /\ remote' = remote
          /\ (~Exists(JobDir) => fs' = fs /\ pc' # "crashed" /\ error' = "none") ]_vars

\* the call returned after removing a file of its directory, where a
\* subdirectory past the threshold is still there, as are the old files of the
\* other directories and the remote artifact
C20_Witness ==
    /\ pc = "finalizado"
    /\ removed # {}
    /\ \E e \in fs[CleanDir].entries : e.kind = "dir" /\ e.mtime < cutoff_date
    /\ \A d \in Dirs \ {CleanDir} : \E e \in fs[d].entries : e.mtime < cutoff_date
    /\ remote # {}

====
